---- MODULE Spec2Model ----
(***************************************************************************)
(* Monthly budget lifecycle of julius (backend/app/crud/category_budget.py *)
(* and backend/app/routes/category_budget.py).                             *)
(*                                                                         *)
(* The relational store is the record db: the categories table, the        *)
(* category_budgets table, the expenses and transactions tables and the    *)
(* primary-key sequences.  Every CRUD                                      *)
(* function of the source is an operator from a store to a record          *)
(* [ret, db]: the value it returns (or the exception it raises) and the    *)
(* store it leaves committed.  Amounts are two-decimal values held as      *)
(* integer cents; a Numeric(10, 2) column stores such a value unchanged.   *)
(*                                                                         *)
(* Spec runs completed calls one after the other.  A claim about a call is *)
(* stated for every call that can be made from a reachable store: its      *)
(* formula applies the function's operator to db.  SpecOpen and SpecBatch  *)
(* run single requests statement by statement, each on its own Session.    *)
(* SpecLedger books and deletes transactions next to fixed budgets, for    *)
(* the dashboard (crud/dashboard.py) and the monthly summary               *)
(* (crud/transaction.py).                                                  *)
(* SpecCatalog creates, updates and deletes categories, expenses and       *)
(* transactions (crud/category.py, crud/expense.py, crud/transaction.py).  *)
(* SpecRace runs a batch next to an open or reopen request of the same     *)
(* user.  SpecFormat applies the month formatting of the dashboard total   *)
(* to month texts held as character sequences.                             *)
(***************************************************************************)
EXTENDS FiniteSets, Integers, Sequences, TLC

VARIABLES
    db,        \* the committed store
    proc,      \* the requests that run step by step: position and locals
    observed   \* what the concurrent reader read last, <<>> before it reads

vars == <<db, proc, observed>>

\* ---------------------------------------------------------------- bounds
MaxBudgetId == 2

\* ---------------------------------------------------------------- inputs
Users == {1, 2}
Months == {"2024-03", "2024-04"}
MalformedMonth == "march"
MonthInputs == Months \cup {MalformedMonth}
Amounts == {100, 250}
CategoryIds == {1, 2, 3}
BudgetIds == 1..MaxBudgetId
None == "None"
\* The mappings a batch is called with.  No user owns all the categories,
\* so a mapping over all of them is one more mapping with a foreign key.
Allocations ==
    UNION {[S -> Amounts] : S \in (SUBSET CategoryIds) \ {CategoryIds}}
BudgetUpdates == {<<>>} \cup [{"allocated_amount"} -> Amounts]
CategoryNames == {"food", "rent"}
CategoryUpdates == {<<>>} \cup [{"name"} -> CategoryNames]

\* ------------------------------------------------------------ the tables
\* is_active is read and written by crud/category_budget.py (lines 282, 347,
\* 402, 434, 454 and 462); models/category_budget.py declares no such
\* column.  A row built without the keyword (create_category_budget) gets
\* the column's default, which no source file states: such a row is taken
\* as not active, as the single-active-month invariant of the data model
\* requires.
DefaultIsActive == FALSE

CategoryBudget(id, user_id, category_id, month, allocated_amount, is_active) ==
    [id |-> id, user_id |-> user_id, category_id |-> category_id,
     month |-> month, allocated_amount |-> allocated_amount,
     is_active |-> is_active]

Category(id, user_id, name) == [id |-> id, user_id |-> user_id, name |-> name]

\* A calendar date (sqlalchemy Date, datetime.date).
Date(year, month, day) == [year |-> year, month |-> month, day |-> day]

Expense(id, user_id, category_id, name) ==
    [id |-> id, user_id |-> user_id, category_id |-> category_id,
     name |-> name]

Transaction(id, user_id, expense_id, amount, transaction_date) ==
    [id |-> id, user_id |-> user_id, expense_id |-> expense_id,
     amount |-> amount, transaction_date |-> transaction_date]

EmptyDb ==
    [categories |-> {}, category_budgets |-> {},
     expenses |-> {}, transactions |-> {},
     next_budget_id |-> 1, next_category_id |-> 1,
     next_expense_id |-> 1, next_transaction_id |-> 1]

\* Position of c in S in ascending order, from 0: the order in which the
\* rows of one commit draw their ids from the sequence.
Rank(c, S) == Cardinality({d \in S : d < c})

RECURSIVE SumAmounts(_)
SumAmounts(rows) ==
    IF rows = {} THEN 0
    ELSE LET r == CHOOSE x \in rows : TRUE
         IN r.allocated_amount + SumAmounts(rows \ {r})

RECURSIVE SumAllocation(_)
SumAllocation(A) ==
    IF DOMAIN A = {} THEN 0
    ELSE LET c == CHOOSE x \in DOMAIN A : TRUE
         IN A[c] + SumAllocation([d \in DOMAIN A \ {c} |-> A[d]])

\* --------------------------------------------------------------- queries
get_category(d, category_id, user_id) ==
    {c \in d.categories : c.id = category_id /\ c.user_id = user_id}

get_category_by_name(d, name, user_id) ==
    {c \in d.categories : c.user_id = user_id /\ c.name = name}

\* Mutant: the lookup of an allocation row by id alone.
get_category_budget_any_user(d, budget_id, user_id) ==
    {b \in d.category_budgets : b.id = budget_id}

get_category_budget(d, budget_id, user_id) ==
    {b \in d.category_budgets : b.id = budget_id /\ b.user_id = user_id}

get_category_budgets_by_month(d, user_id, month) ==
    {b \in d.category_budgets : b.user_id = user_id /\ b.month = month}

\* The rows the query of get_active_month / close_active_month selects.
active_budgets(d, user_id) ==
    {b \in d.category_budgets : b.user_id = user_id /\ b.is_active = TRUE}

\* The months that have an active row of the user.
ActiveMonths(d, user_id) == {b.month : b \in active_budgets(d, user_id)}

\* The ids of the categories the user owns.
CategoriesOf(d, user_id) ==
    {c.id : c \in {x \in d.categories : x.user_id = user_id}}

\* .first() without ORDER BY: some selected row.
get_active_month(d, user_id) ==
    IF active_budgets(d, user_id) = {} THEN None
    ELSE (CHOOSE b \in active_budgets(d, user_id) : TRUE).month

has_active_month(d, user_id) == get_active_month(d, user_id) # None

\* Mutant: the query of get_active_month without its is_active filter.
get_active_month_results_any_row(d, user_id) ==
    IF {b \in d.category_budgets : b.user_id = user_id} = {} THEN {None}
    ELSE {b.month : b \in {x \in d.category_budgets : x.user_id = user_id}}

\* Every value a call of get_active_month can return from the store: the
\* query has no ORDER BY, so .first() may be any selected row.  The call
\* issues a SELECT only; it leaves the store as it is.
get_active_month_results(d, user_id) ==
    IF active_budgets(d, user_id) = {} THEN {None}
    ELSE {b.month : b \in active_budgets(d, user_id)}

\* Mutant: the summary forgets the month filter.
get_monthly_budget_summary_all_months(d, user_id, month) ==
    LET budgets == {b \in d.category_budgets : b.user_id = user_id}
    IN [month |-> month,
        total_allocated |-> SumAmounts(budgets),
        categories |-> {[id |-> b.id, user_id |-> b.user_id,
                         category_id |-> b.category_id, month |-> b.month,
                         allocated_amount |-> b.allocated_amount] :
                        b \in budgets}]

get_monthly_budget_summary(d, user_id, month) ==
    LET budgets == get_category_budgets_by_month(d, user_id, month)
    IN [month |-> month,
        total_allocated |-> SumAmounts(budgets),
        categories |-> {[id |-> b.id, user_id |-> b.user_id,
                         category_id |-> b.category_id, month |-> b.month,
                         allocated_amount |-> b.allocated_amount] :
                        b \in budgets}]

\* ------------------------------------------------------ category CRUD
create_category(d, name, user_id) ==
    IF get_category_by_name(d, name, user_id) # {}
    THEN [ret |-> "ValueError", db |-> d]
    ELSE [ret |-> d.next_category_id,
          db |-> [d EXCEPT
                    !.categories = @ \cup
                        {Category(d.next_category_id, user_id, name)},
                    !.next_category_id = @ + 1]]

\* Mutant: update_category without the check of the new name.
update_category_unchecked(d, category_id, category, user_id) ==
    IF get_category(d, category_id, user_id) = {}
    THEN [ret |-> None, db |-> d]
    ELSE [ret |-> "updated",
          db |-> [d EXCEPT !.categories =
                    {IF c.id = category_id /\ c.user_id = user_id
                     THEN [f \in DOMAIN c |->
                             IF f \in DOMAIN category
                             THEN category[f] ELSE c[f]]
                     ELSE c : c \in @}]]

\* category is the dict CategoryUpdate.model_dump(exclude_unset=True)
\* yields: a function over the fields the request set.
update_category(d, category_id, category, user_id) ==
    IF get_category(d, category_id, user_id) = {}
    THEN [ret |-> None, db |-> d]
    ELSE LET db_category == CHOOSE c \in get_category(d, category_id, user_id) :
                                TRUE
         IN IF /\ "name" \in DOMAIN category
               /\ category.name # db_category.name
               /\ get_category_by_name(d, category.name, user_id) # {}
            THEN [ret |-> "ValueError", db |-> d]
            ELSE [ret |-> "updated",
                  db |-> [d EXCEPT !.categories =
                            {IF c = db_category
                             THEN [f \in DOMAIN c |->
                                     IF f \in DOMAIN category
                                     THEN category[f] ELSE c[f]]
                             ELSE c : c \in @}]]

\* The expenses of the category: the collection Category.expenses.
ExpensesOfCategory(d, category_id) ==
    {e \in d.expenses : e.category_id = category_id}

\* The transactions of the expense: the collection Expense.transactions.
TransactionsOfExpense(d, expense_id) ==
    {t \in d.transactions : t.expense_id = expense_id}

\* db.delete(db_category) cascades over Category.budgets and
\* Category.expenses ("all, delete-orphan").  Expense.transactions has no
\* delete cascade: the flush detaches the transactions of a deleted expense
\* by setting transactions.expense_id to NULL, which the column
\* (nullable=False) refuses; db.commit() raises IntegrityError and nothing
\* is deleted.
delete_category(d, category_id, user_id) ==
    IF get_category(d, category_id, user_id) = {}
    THEN [ret |-> "False", db |-> d]
    ELSE IF \E e \in ExpensesOfCategory(d, category_id) :
                TransactionsOfExpense(d, e.id) # {}
    THEN [ret |-> "IntegrityError", db |-> d]
    ELSE [ret |-> "True",
          db |-> [d EXCEPT
                    !.categories = @ \ get_category(d, category_id, user_id),
                    !.category_budgets =
                        {b \in @ : b.category_id # category_id},
                    !.expenses =
                        @ \ ExpensesOfCategory(d, category_id)]]

\* ----------------------------------------------------- allocation CRUD
\* Mutant: create_category_budget without the check for an existing row.
create_category_budget_unchecked(d, category_budget, user_id) ==
    IF get_category(d, category_budget.category_id, user_id) = {}
    THEN [ret |-> "ValueError: category", db |-> d]
    ELSE [ret |-> d.next_budget_id,
          db |-> [d EXCEPT
                    !.category_budgets = @ \cup
                        {CategoryBudget(d.next_budget_id, user_id,
                                        category_budget.category_id,
                                        category_budget.month,
                                        category_budget.allocated_amount,
                                        DefaultIsActive)},
                    !.next_budget_id = @ + 1]]

\* category_budget is the CategoryBudgetCreate payload
\* [category_id, month, allocated_amount].
create_category_budget(d, category_budget, user_id) ==
    IF get_category(d, category_budget.category_id, user_id) = {}
    THEN [ret |-> "ValueError: category", db |-> d]
    ELSE IF {b \in d.category_budgets :
                /\ b.user_id = user_id
                /\ b.category_id = category_budget.category_id
                /\ b.month = category_budget.month} # {}
    THEN [ret |-> "ValueError: exists", db |-> d]
    ELSE [ret |-> d.next_budget_id,
          db |-> [d EXCEPT
                    !.category_budgets = @ \cup
                        {CategoryBudget(d.next_budget_id, user_id,
                                        category_budget.category_id,
                                        category_budget.month,
                                        category_budget.allocated_amount,
                                        DefaultIsActive)},
                    !.next_budget_id = @ + 1]]

\* budget_update is the dict model_dump(exclude_unset=True) yields: a
\* function over the fields the request set.
update_category_budget(d, budget_id, budget_update, user_id) ==
    IF get_category_budget(d, budget_id, user_id) = {}
    THEN [ret |-> None, db |-> d]
    ELSE [ret |-> budget_id,
          db |-> [d EXCEPT !.category_budgets =
                    {IF b.id = budget_id /\ b.user_id = user_id
                     THEN [f \in DOMAIN b |->
                             IF f \in DOMAIN budget_update
                             THEN budget_update[f] ELSE b[f]]
                     ELSE b : b \in @}]]

delete_category_budget(d, budget_id, user_id) ==
    IF get_category_budget(d, budget_id, user_id) = {}
    THEN [ret |-> FALSE, db |-> d]
    ELSE [ret |-> TRUE,
          db |-> [d EXCEPT !.category_budgets =
                    @ \ get_category_budget(d, budget_id, user_id)]]

\* Mutant: the month's rows are closed instead of deleted.
delete_category_budgets_by_month_closing(d, user_id, month) ==
    [ret |-> Cardinality(get_category_budgets_by_month(d, user_id, month)),
     db |-> [d EXCEPT !.category_budgets =
               {IF b.user_id = user_id /\ b.month = month
                THEN [b EXCEPT !.is_active = FALSE] ELSE b : b \in @}]]

delete_category_budgets_by_month(d, user_id, month) ==
    [ret |-> Cardinality(get_category_budgets_by_month(d, user_id, month)),
     db |-> [d EXCEPT !.category_budgets =
               @ \ get_category_budgets_by_month(d, user_id, month)]]

\* Mutant: the inserted rows are built without is_active=True.
NewRowsDefaultFlag(d, user_id, month, S, amt) ==
    {CategoryBudget(d.next_budget_id + Rank(c, S), user_id, c, month,
                    amt[c], DefaultIsActive) : c \in S}

\* The rows one commit inserts for the category ids S of (user_id, month),
\* amount amt[c] each, all active.
NewActiveRows(d, user_id, month, S, amt) ==
    {CategoryBudget(d.next_budget_id + Rank(c, S), user_id, c, month,
                    amt[c], TRUE) : c \in S}

\* Mutant: the batch inserts without deleting the month's rows first.
create_or_update_monthly_budget_merge(d, user_id, month, allocations) ==
    IF has_active_month(d, user_id) /\ get_active_month(d, user_id) # month
    THEN [ret |-> "ValueError: active month",
          active_month |-> get_active_month(d, user_id), db |-> d]
    ELSE LET category_ids == DOMAIN allocations
             categories == {c \in d.categories :
                               c.id \in category_ids /\ c.user_id = user_id}
         IN IF Cardinality(categories) # Cardinality(category_ids)
            THEN [ret |-> "ValueError: categories",
                  missing_ids |-> category_ids \ {c.id : c \in categories},
                  db |-> d]
            ELSE LET created == NewActiveRows(d, user_id, month, category_ids,
                                              allocations)
                 IN [ret |-> "created",
                     created_budgets |-> created,
                     db |-> [d EXCEPT
                               !.category_budgets = @ \cup created,
                               !.next_budget_id =
                                   @ + Cardinality(category_ids)]]

\* Mutant: the batch without the check of the category ids.
create_or_update_monthly_budget_unvalidated(d, user_id, month, allocations) ==
    IF has_active_month(d, user_id) /\ get_active_month(d, user_id) # month
    THEN [ret |-> "ValueError: active month",
          active_month |-> get_active_month(d, user_id), db |-> d]
    ELSE LET category_ids == DOMAIN allocations
             d1 == delete_category_budgets_by_month(d, user_id, month).db
             created == NewActiveRows(d1, user_id, month, category_ids,
                                      allocations)
         IN [ret |-> "created",
             created_budgets |-> created,
             db |-> [d1 EXCEPT
                       !.category_budgets = @ \cup created,
                       !.next_budget_id = @ + Cardinality(category_ids)]]

\* Mutant: the batch without the check of the active month.
create_or_update_monthly_budget_any_month(d, user_id, month, allocations) ==
    LET category_ids == DOMAIN allocations
        categories == {c \in d.categories :
                          c.id \in category_ids /\ c.user_id = user_id}
    IN IF Cardinality(categories) # Cardinality(category_ids)
       THEN [ret |-> "ValueError: categories",
             missing_ids |-> category_ids \ {c.id : c \in categories},
             db |-> d]
       ELSE LET d1 == delete_category_budgets_by_month(d, user_id, month).db
                created == NewActiveRows(d1, user_id, month, category_ids,
                                         allocations)
            IN [ret |-> "created",
                created_budgets |-> created,
                db |-> [d1 EXCEPT
                          !.category_budgets = @ \cup created,
                          !.next_budget_id = @ + Cardinality(category_ids)]]

create_or_update_monthly_budget(d, user_id, month, allocations) ==
    IF has_active_month(d, user_id) /\ get_active_month(d, user_id) # month
    THEN [ret |-> "ValueError: active month",
          active_month |-> get_active_month(d, user_id), db |-> d]
    ELSE LET category_ids == DOMAIN allocations
             categories == {c \in d.categories :
                               c.id \in category_ids /\ c.user_id = user_id}
         IN IF Cardinality(categories) # Cardinality(category_ids)
            THEN [ret |-> "ValueError: categories",
                  missing_ids |-> category_ids \ {c.id : c \in categories},
                  db |-> d]
            ELSE LET d1 == delete_category_budgets_by_month(d, user_id, month).db
                     created == NewActiveRows(d1, user_id, month, category_ids,
                                              allocations)
                 IN [ret |-> "created",
                     created_budgets |-> created,
                     db |-> [d1 EXCEPT
                               !.category_budgets = @ \cup created,
                               !.next_budget_id =
                                   @ + Cardinality(category_ids)]]

\* ------------------------------------------------------ month lifecycle
\* Mutant: open_new_month without its active-month check.
open_new_month_unguarded(d, user_id, month) ==
    IF get_category_budgets_by_month(d, user_id, month) # {}
    THEN [ret |-> "ValueError", db |-> d]
    ELSE LET ids == {c.id : c \in {x \in d.categories : x.user_id = user_id}}
         IN [ret |-> "True",
             db |-> [d EXCEPT
                       !.category_budgets = @ \cup
                           NewActiveRows(d, user_id, month, ids,
                                         [c \in ids |-> 0]),
                       !.next_budget_id = @ + Cardinality(ids)]]

\* Mutant: open_new_month takes the categories of every user.
open_new_month_all_categories(d, user_id, month) ==
    IF has_active_month(d, user_id)
    THEN [ret |-> "False", db |-> d]
    ELSE IF get_category_budgets_by_month(d, user_id, month) # {}
    THEN [ret |-> "ValueError", db |-> d]
    ELSE LET ids == {c.id : c \in d.categories}
         IN [ret |-> "True",
             db |-> [d EXCEPT
                       !.category_budgets = @ \cup
                           NewActiveRows(d, user_id, month, ids,
                                         [c \in ids |-> 0]),
                       !.next_budget_id = @ + Cardinality(ids)]]

\* Mutant: open_new_month without the check for rows of the month.
open_new_month_over_existing(d, user_id, month) ==
    IF has_active_month(d, user_id)
    THEN [ret |-> "False", db |-> d]
    ELSE LET ids == {c.id : c \in {x \in d.categories : x.user_id = user_id}}
         IN [ret |-> "True",
             db |-> [d EXCEPT
                       !.category_budgets = @ \cup
                           NewActiveRows(d, user_id, month, ids,
                                         [c \in ids |-> 0]),
                       !.next_budget_id = @ + Cardinality(ids)]]

open_new_month(d, user_id, month) ==
    IF has_active_month(d, user_id)
    THEN [ret |-> "False", db |-> d]
    ELSE IF get_category_budgets_by_month(d, user_id, month) # {}
    THEN [ret |-> "ValueError", db |-> d]
    ELSE LET ids == {c.id : c \in {x \in d.categories : x.user_id = user_id}}
         IN [ret |-> "True",
             db |-> [d EXCEPT
                       !.category_budgets = @ \cup
                           NewActiveRows(d, user_id, month, ids,
                                         [c \in ids |-> 0]),
                       !.next_budget_id = @ + Cardinality(ids)]]

\* Mutant: reopen_month raises for a month without rows.
reopen_month_raising(d, user_id, month) ==
    IF has_active_month(d, user_id)
    THEN [ret |-> "False", db |-> d]
    ELSE IF get_category_budgets_by_month(d, user_id, month) = {}
    THEN [ret |-> "ValueError", db |-> d]
    ELSE [ret |-> "True",
          db |-> [d EXCEPT !.category_budgets =
                    {IF b.user_id = user_id /\ b.month = month
                     THEN [b EXCEPT !.is_active = TRUE] ELSE b : b \in @}]]

\* Mutant: reopen_month sets the flag on every row of the user.
reopen_month_every_month(d, user_id, month) ==
    IF has_active_month(d, user_id)
    THEN [ret |-> "False", db |-> d]
    ELSE IF get_category_budgets_by_month(d, user_id, month) = {}
    THEN [ret |-> "False", db |-> d]
    ELSE [ret |-> "True",
          db |-> [d EXCEPT !.category_budgets =
                    {IF b.user_id = user_id
                     THEN [b EXCEPT !.is_active = TRUE] ELSE b : b \in @}]]

reopen_month(d, user_id, month) ==
    IF has_active_month(d, user_id)
    THEN [ret |-> "False", db |-> d]
    ELSE IF get_category_budgets_by_month(d, user_id, month) = {}
    THEN [ret |-> "False", db |-> d]
    ELSE [ret |-> "True",
          db |-> [d EXCEPT !.category_budgets =
                    {IF b.user_id = user_id /\ b.month = month
                     THEN [b EXCEPT !.is_active = TRUE] ELSE b : b \in @}]]

\* Mutant: close_active_month without the early return for no active row.
close_active_month_no_return(d, user_id) ==
    [ret |-> "True",
     db |-> [d EXCEPT !.category_budgets =
               {IF b \in active_budgets(d, user_id)
                THEN [b EXCEPT !.is_active = FALSE] ELSE b : b \in @}]]

\* Mutant: close_active_month clears the flag of one active row only.
close_active_month_first_row(d, user_id) ==
    IF active_budgets(d, user_id) = {}
    THEN [ret |-> "False", db |-> d]
    ELSE [ret |-> "True",
          db |-> [d EXCEPT !.category_budgets =
                    {IF b = CHOOSE x \in active_budgets(d, user_id) : TRUE
                     THEN [b EXCEPT !.is_active = FALSE] ELSE b : b \in @}]]

close_active_month(d, user_id) ==
    IF active_budgets(d, user_id) = {}
    THEN [ret |-> "False", db |-> d]
    ELSE [ret |-> "True",
          db |-> [d EXCEPT !.category_budgets =
                    {IF b \in active_budgets(d, user_id)
                     THEN [b EXCEPT !.is_active = FALSE] ELSE b : b \in @}]]

\* ------------------------------------------------------------ endpoints
\* datetime.strptime(month, "%Y-%m") succeeds.
IsYearMonth(month) == month \in Months

\* Mutant: the endpoint leaves the active-month check to open_new_month.
open_month_endpoint_unchecked(d, month, user_id) ==
    IF ~IsYearMonth(month)
    THEN [status |-> 400, detail |-> "format", db |-> d]
    ELSE LET r == open_new_month(d, user_id, month)
         IN IF r.ret = "ValueError"
            THEN [status |-> 400, detail |-> "exists", db |-> r.db]
            ELSE IF r.ret = "False"
            THEN [status |-> 409, detail |-> "failed", db |-> r.db]
            ELSE [status |-> 201, detail |-> month, db |-> r.db]

open_month_endpoint(d, month, user_id) ==
    IF ~IsYearMonth(month)
    THEN [status |-> 400, detail |-> "format", db |-> d]
    ELSE IF has_active_month(d, user_id)
    THEN [status |-> 409, detail |-> get_active_month(d, user_id), db |-> d]
    ELSE LET r == open_new_month(d, user_id, month)
         IN IF r.ret = "ValueError"
            THEN [status |-> 400, detail |-> "exists", db |-> r.db]
            ELSE IF r.ret = "False"
            THEN [status |-> 409, detail |-> "failed", db |-> r.db]
            ELSE [status |-> 201, detail |-> month, db |-> r.db]

reopen_month_endpoint(d, month, user_id) ==
    IF ~IsYearMonth(month)
    THEN [status |-> 400, detail |-> "format", db |-> d]
    ELSE IF has_active_month(d, user_id)
    THEN [status |-> 409, detail |-> get_active_month(d, user_id), db |-> d]
    ELSE LET r == reopen_month(d, user_id, month)
         IN IF r.ret = "True"
            THEN [status |-> 200, detail |-> month, db |-> r.db]
            ELSE [status |-> 404, detail |-> "not found", db |-> r.db]

close_month_endpoint(d, user_id) ==
    IF get_active_month(d, user_id) = None
    THEN [status |-> 404, detail |-> "no active month", db |-> d]
    ELSE LET r == close_active_month(d, user_id)
         IN IF r.ret = "False"
            THEN [status |-> 404, detail |-> "no active month", db |-> r.db]
            ELSE [status |-> 200, detail |-> get_active_month(d, user_id),
                  db |-> r.db]

delete_monthly_budget(d, month, user_id) ==
    LET r == delete_category_budgets_by_month(d, user_id, month)
    IN IF r.ret = 0
       THEN [status |-> 404, detail |-> "not found", db |-> r.db]
       ELSE [status |-> 204, detail |-> r.ret, db |-> r.db]

\* ------------------------------------------------ dates and month texts
\* The month texts the model passes around, with the numbers their digits
\* spell: int(month[:4]) and int(month[-2:]) read a text, strftime and
\* to_char(..., 'YYYY-MM') write one.
YearMonthTexts ==
    {[text |-> "2024-03", year |-> 2024, month |-> 3],
     [text |-> "2024-04", year |-> 2024, month |-> 4],
     [text |-> "2024-11", year |-> 2024, month |-> 11],
     [text |-> "2024-12", year |-> 2024, month |-> 12],
     [text |-> "2025-01", year |-> 2025, month |-> 1]}

\* int(month[:4])
YearOf(month) == (CHOOSE e \in YearMonthTexts : e.text = month).year

\* int(month[-2:])
MonthNumOf(month) == (CHOOSE e \in YearMonthTexts : e.text = month).month

\* func.to_char(Transaction.transaction_date, 'YYYY-MM')
to_char(dt) ==
    (CHOOSE e \in YearMonthTexts :
        e.year = dt.year /\ e.month = dt.month).text

\* The exception strptime raises, in the place of the date.
ValueError == [raised |-> "ValueError"]

IsLeap(year) == (year % 4 = 0 /\ year % 100 # 0) \/ year % 400 = 0

DaysInMonth(year, month) ==
    IF month = 2 THEN (IF IsLeap(year) THEN 29 ELSE 28)
    ELSE IF month \in {4, 6, 9, 11} THEN 30 ELSE 31

\* datetime.strptime(f"{year}-{month}-{day}", "%Y-%m-%d").date(): the text
\* must spell a date of the calendar.
strptime_date(year, month, day) ==
    IF month \in 1..12 /\ day \in 1..DaysInMonth(year, month)
    THEN Date(year, month, day)
    ELSE ValueError

\* a < b on Date values.
DateLt(a, b) ==
    \/ a.year < b.year
    \/ a.year = b.year /\ a.month < b.month
    \/ a.year = b.year /\ a.month = b.month /\ a.day < b.day

DateLe(a, b) == a = b \/ DateLt(a, b)

\* ------------------------------------------------------------ the ledger
RECURSIVE SumTransactions(_)
SumTransactions(rows) ==
    IF rows = {} THEN 0
    ELSE LET r == CHOOSE x \in rows : TRUE
         IN r.amount + SumTransactions(rows \ {r})

get_expense(d, expense_id, user_id) ==
    {e \in d.expenses : e.id = expense_id /\ e.user_id = user_id}

get_transaction(d, transaction_id, user_id) ==
    {t \in d.transactions : t.id = transaction_id /\ t.user_id = user_id}

\* transaction is the TransactionCreate payload
\* [expense_id, amount, transaction_date].
create_transaction(d, transaction, user_id) ==
    IF get_expense(d, transaction.expense_id, user_id) = {}
    THEN [ret |-> "ValueError", db |-> d]
    ELSE [ret |-> d.next_transaction_id,
          db |-> [d EXCEPT
                    !.transactions = @ \cup
                        {Transaction(d.next_transaction_id, user_id,
                                     transaction.expense_id,
                                     transaction.amount,
                                     transaction.transaction_date)},
                    !.next_transaction_id = @ + 1]]

delete_transaction(d, transaction_id, user_id) ==
    IF get_transaction(d, transaction_id, user_id) = {}
    THEN [ret |-> FALSE, db |-> d]
    ELSE [ret |-> TRUE,
          db |-> [d EXCEPT !.transactions =
                    @ \ get_transaction(d, transaction_id, user_id)]]

\* -------------------------------------------- completed, sequential calls
\* The categories a store can hold when the budget calls start: any of
\* these rows, left by earlier create_category / delete_category calls.
Catalog ==
    {Category(1, 1, "food"), Category(2, 1, "rent"), Category(3, 2, "food")}

InitialStores ==
    {[EmptyDb EXCEPT !.categories = cs,
                     !.next_category_id = 4] :
        cs \in SUBSET Catalog}

Idle == [pc |-> "idle"]

Init ==
    /\ db \in InitialStores
    /\ proc = [p \in {1, 2} |-> Idle]
    /\ observed = <<>>

\* The sequence stays within the ids the model enumerates.
WithinBounds(d) == d.next_budget_id <= MaxBudgetId + 1

CreateCategoryBudget ==
    \E u \in Users, c \in CategoryIds, m \in Months, a \in Amounts :
        LET r == create_category_budget(
                     db, [category_id |-> c, month |-> m,
                          allocated_amount |-> a], u)
        IN /\ WithinBounds(r.db)
           /\ db' = r.db
           /\ UNCHANGED <<proc, observed>>

UpdateCategoryBudget ==
    \E u \in Users, i \in BudgetIds, upd \in BudgetUpdates :
        /\ db' = update_category_budget(db, i, upd, u).db
        /\ UNCHANGED <<proc, observed>>

DeleteCategoryBudget ==
    \E u \in Users, i \in BudgetIds :
        /\ db' = delete_category_budget(db, i, u).db
        /\ UNCHANGED <<proc, observed>>

DeleteCategoryBudgetsByMonth ==
    \E u \in Users, m \in Months :
        /\ db' = delete_category_budgets_by_month(db, u, m).db
        /\ UNCHANGED <<proc, observed>>

CreateOrUpdateMonthlyBudget ==
    \E u \in Users, m \in Months, A \in Allocations :
        LET r == create_or_update_monthly_budget(db, u, m, A)
        IN /\ WithinBounds(r.db)
           /\ db' = r.db
           /\ UNCHANGED <<proc, observed>>

OpenNewMonth ==
    \E u \in Users, m \in Months :
        LET r == open_new_month(db, u, m)
        IN /\ WithinBounds(r.db)
           /\ db' = r.db
           /\ UNCHANGED <<proc, observed>>

ReopenMonth ==
    \E u \in Users, m \in Months :
        /\ db' = reopen_month(db, u, m).db
        /\ UNCHANGED <<proc, observed>>

CloseActiveMonth ==
    \E u \in Users :
        /\ db' = close_active_month(db, u).db
        /\ UNCHANGED <<proc, observed>>

OpenMonthEndpoint ==
    \E u \in Users, m \in MonthInputs :
        LET r == open_month_endpoint(db, m, u)
        IN /\ WithinBounds(r.db)
           /\ db' = r.db
           /\ UNCHANGED <<proc, observed>>

ReopenMonthEndpoint ==
    \E u \in Users, m \in MonthInputs :
        /\ db' = reopen_month_endpoint(db, m, u).db
        /\ UNCHANGED <<proc, observed>>

CloseMonthEndpoint ==
    \E u \in Users :
        /\ db' = close_month_endpoint(db, u).db
        /\ UNCHANGED <<proc, observed>>

Next ==
    \/ CreateCategoryBudget
    \/ UpdateCategoryBudget
    \/ DeleteCategoryBudget
    \/ DeleteCategoryBudgetsByMonth
    \/ CreateOrUpdateMonthlyBudget
    \/ OpenNewMonth
    \/ ReopenMonth
    \/ CloseActiveMonth
    \/ OpenMonthEndpoint
    \/ ReopenMonthEndpoint
    \/ CloseMonthEndpoint

Spec == Init /\ [][Next]_vars

\* ------------------------------------- two concurrent open-month requests
\* Each request runs on its own Session (get_db); the engine is created
\* with the driver's defaults, so every query reads the rows committed at
\* that moment and db.add() only stages rows until db.commit().
Requests == {1, 2}

\* Stores the requests can start from: fresh ones, and ones holding a month
\* that was opened and closed again.
ClosedMonthStores ==
    {close_active_month(open_new_month(d, u, m).db, u).db :
        d \in InitialStores, u \in Users, m \in Months}

OpenRequest(user_id, month) ==
    [pc |-> "endpoint_check", user_id |-> user_id, month |-> month,
     pending |-> {}, status |-> 0, detail |-> None]

InitOpen ==
    /\ db \in InitialStores \cup ClosedMonthStores
    /\ \E u \in Users, m1 \in Months :
          \E m2 \in Months \ {m1} :
              proc = [p \in Requests |->
                        OpenRequest(u, IF p = 1 THEN m1 ELSE m2)]
    /\ observed = <<>>

Respond(p, status, detail) ==
    proc' = [proc EXCEPT ![p].pc = "done", ![p].status = status,
                         ![p].detail = detail]

Goto(p, pc) == proc' = [proc EXCEPT ![p].pc = pc]

\* open_month_endpoint: if has_active_month(db, current_user.id)
OpenEndpointCheck(p) ==
    /\ proc[p].pc = "endpoint_check"
    /\ IF has_active_month(db, proc[p].user_id)
       THEN Goto(p, "endpoint_conflict")
       ELSE Goto(p, "crud_check")
    /\ UNCHANGED <<db, observed>>

\* open_month_endpoint: active_month = get_active_month(...); raise 409
OpenEndpointConflict(p) ==
    /\ proc[p].pc = "endpoint_conflict"
    /\ \E x \in IF active_budgets(db, proc[p].user_id) = {} THEN {None}
                ELSE ActiveMonths(db, proc[p].user_id) :
          Respond(p, 409, x)
    /\ UNCHANGED <<db, observed>>

\* open_new_month: if has_active_month(db, user_id): return False
OpenCrudCheck(p) ==
    /\ proc[p].pc = "crud_check"
    /\ IF has_active_month(db, proc[p].user_id)
       THEN Respond(p, 409, "failed")
       ELSE Goto(p, "existing_check")
    /\ UNCHANGED <<db, observed>>

\* open_new_month: existing_budgets = get_category_budgets_by_month(...)
OpenExistingCheck(p) ==
    /\ proc[p].pc = "existing_check"
    /\ IF get_category_budgets_by_month(db, proc[p].user_id, proc[p].month) # {}
       THEN Respond(p, 400, "exists")
       ELSE Goto(p, "insert")
    /\ UNCHANGED <<db, observed>>

\* open_new_month: the categories query and the db.add() loop
OpenInsert(p) ==
    /\ proc[p].pc = "insert"
    /\ proc' = [proc EXCEPT ![p].pc = "commit",
                            ![p].pending = CategoriesOf(db, proc[p].user_id)]
    /\ UNCHANGED <<db, observed>>

\* open_new_month: db.commit(); return True
OpenCommit(p) ==
    /\ proc[p].pc = "commit"
    /\ db' = [db EXCEPT
                !.category_budgets = @ \cup
                    NewActiveRows(db, proc[p].user_id, proc[p].month,
                                  proc[p].pending,
                                  [c \in proc[p].pending |-> 0]),
                !.next_budget_id = @ + Cardinality(proc[p].pending)]
    /\ Respond(p, 201, proc[p].month)
    /\ UNCHANGED observed

NextOpen ==
    \E p \in Requests :
        \/ OpenEndpointCheck(p)
        \/ OpenEndpointConflict(p)
        \/ OpenCrudCheck(p)
        \/ OpenExistingCheck(p)
        \/ OpenInsert(p)
        \/ OpenCommit(p)

SpecOpen == InitOpen /\ [][NextOpen]_vars

\* ------------------------------- one batch allocation, step by step
\* create_or_update_monthly_budget on its own Session, next to a reader of
\* the committed table and to storage errors.  The function commits twice:
\* inside delete_category_budgets_by_month and after the db.add() loop.
RowContent(rows) ==
    {[category_id |-> b.category_id, allocated_amount |-> b.allocated_amount,
      is_active |-> b.is_active] : b \in rows}

\* Stores the batch can start from: a month just opened, a month already
\* allocated, a month closed again, or nothing yet.
OpenedStores ==
    {open_new_month(d, u, m).db : d \in InitialStores, u \in Users, m \in Months}

AllocatedStores ==
    {create_or_update_monthly_budget(d, u, m, A).db :
        d \in InitialStores, u \in Users, m \in Months, A \in Allocations}

\* before is the content of the rows of (user_id, month) when the call
\* starts, kept to state what a reader may see.
BatchRequest(d, user_id, month, allocations) ==
    [pc |-> "check_active", user_id |-> user_id, month |-> month,
     allocations |-> allocations,
     before |-> RowContent(get_category_budgets_by_month(d, user_id, month)),
     pending |-> {}, ret |-> None, failed_at |-> None]

InitBatch ==
    /\ db \in InitialStores \cup OpenedStores \cup AllocatedStores
                \cup ClosedMonthStores
    /\ \E u \in Users, m \in Months, A \in Allocations :
          proc = [p \in Requests |->
                    IF p = 1 THEN BatchRequest(db, u, m, A) ELSE Idle]
    /\ observed = <<>>

Return(p, ret) == proc' = [proc EXCEPT ![p].pc = "done", ![p].ret = ret]

\* if has_active_month(...): active_month = get_active_month(...); raise
BatchCheckActive ==
    /\ proc[1].pc = "check_active"
    /\ IF /\ has_active_month(db, proc[1].user_id)
          /\ get_active_month(db, proc[1].user_id) # proc[1].month
       THEN Return(1, "ValueError: active month")
       ELSE Goto(1, "validate")
    /\ UNCHANGED <<db, observed>>

\* the Category query and the len(categories) != len(category_ids) test
BatchValidate ==
    /\ proc[1].pc = "validate"
    /\ LET category_ids == DOMAIN proc[1].allocations
           categories == {c \in db.categories :
                             c.id \in category_ids /\ c.user_id = proc[1].user_id}
       IN IF Cardinality(categories) # Cardinality(category_ids)
          THEN Return(1, "ValueError: categories")
          ELSE Goto(1, "delete")
    /\ UNCHANGED <<db, observed>>

\* delete_category_budgets_by_month: db.execute(delete(...)), not yet
\* committed
BatchDelete ==
    /\ proc[1].pc = "delete"
    /\ Goto(1, "delete_commit")
    /\ UNCHANGED <<db, observed>>

\* delete_category_budgets_by_month: db.commit()
BatchDeleteCommit ==
    /\ proc[1].pc = "delete_commit"
    /\ db' = delete_category_budgets_by_month(
                 db, proc[1].user_id, proc[1].month).db
    /\ Goto(1, "add")
    /\ UNCHANGED observed

\* the db.add() loop over allocations.items()
BatchAdd ==
    /\ proc[1].pc = "add"
    /\ proc' = [proc EXCEPT ![1].pc = "commit",
                            ![1].pending = DOMAIN proc[1].allocations]
    /\ UNCHANGED <<db, observed>>

\* db.commit() flushes the INSERTs and commits; the rows are refreshed
BatchCommit ==
    /\ proc[1].pc = "commit"
    /\ db' = [db EXCEPT
                !.category_budgets = @ \cup
                    NewActiveRows(db, proc[1].user_id, proc[1].month,
                                  proc[1].pending, proc[1].allocations),
                !.next_budget_id = @ + Cardinality(proc[1].pending)]
    /\ Return(1, "created")
    /\ UNCHANGED observed

\* A statement or commit fails (connection lost, numeric overflow of an
\* amount, ...): the exception leaves the function, get_db closes the
\* Session and what was not committed is rolled back.
StorageError ==
    /\ proc[1].pc \in {"delete", "delete_commit", "commit"}
    /\ proc' = [proc EXCEPT ![1].pc = "failed", ![1].failed_at = proc[1].pc,
                            ![1].pending = {}]
    /\ UNCHANGED <<db, observed>>

\* Another Session reads the rows of the batch's (user, month) while the
\* batch runs.
Read ==
    /\ proc[1].pc \notin {"done", "failed"}
    /\ observed' = <<RowContent(get_category_budgets_by_month(
                                    db, proc[1].user_id, proc[1].month))>>
    /\ UNCHANGED <<db, proc>>

NextBatch ==
    \/ BatchCheckActive
    \/ BatchValidate
    \/ BatchDelete
    \/ BatchDeleteCommit
    \/ BatchAdd
    \/ BatchCommit
    \/ StorageError
    \/ Read

SpecBatch == InitBatch /\ [][NextBatch]_vars

\* ------------------- a batch next to an open or reopen of another month
\* Request 1 is create_or_update_monthly_budget for the user's active
\* month, request 2 POST /open-month or POST /reopen-month of the same user
\* for the other month, each on its own Session.
ReopenRequest(user_id, month) ==
    [pc |-> "reopen_endpoint_check", user_id |-> user_id, month |-> month,
     pending |-> {}, status |-> 0, detail |-> None]

\* Stores in which the user has an active month: just opened, or opened
\* after the other month was opened and closed.
ActiveMonthStores ==
    OpenedStores \cup
    {open_new_month(d, u, m).db :
        d \in ClosedMonthStores, u \in Users, m \in Months}

InitRace ==
    /\ db \in ActiveMonthStores
    /\ \E u \in Users, m1 \in Months, A \in Allocations :
          \E m2 \in Months \ {m1} :
              /\ ActiveMonths(db, u) = {m1}
              /\ \E second \in {OpenRequest(u, m2), ReopenRequest(u, m2)} :
                    proc = [p \in Requests |->
                              IF p = 1 THEN BatchRequest(db, u, m1, A)
                              ELSE second]
    /\ observed = <<>>

\* reopen_month_endpoint: if has_active_month(db, current_user.id)
ReopenEndpointCheck(p) ==
    /\ proc[p].pc = "reopen_endpoint_check"
    /\ IF has_active_month(db, proc[p].user_id)
       THEN Goto(p, "reopen_endpoint_conflict")
       ELSE Goto(p, "reopen_crud_check")
    /\ UNCHANGED <<db, observed>>

\* reopen_month_endpoint: active_month = get_active_month(...); raise 409
ReopenEndpointConflict(p) ==
    /\ proc[p].pc = "reopen_endpoint_conflict"
    /\ \E x \in IF active_budgets(db, proc[p].user_id) = {} THEN {None}
                ELSE ActiveMonths(db, proc[p].user_id) :
          Respond(p, 409, x)
    /\ UNCHANGED <<db, observed>>

\* reopen_month: if has_active_month(db, user_id): return False
ReopenCrudCheck(p) ==
    /\ proc[p].pc = "reopen_crud_check"
    /\ IF has_active_month(db, proc[p].user_id)
       THEN Respond(p, 404, "not found")
       ELSE Goto(p, "reopen_select")
    /\ UNCHANGED <<db, observed>>

\* reopen_month: existing_budgets = get_category_budgets_by_month(...) and
\* the loop that sets is_active on the loaded rows
ReopenSelect(p) ==
    /\ proc[p].pc = "reopen_select"
    /\ LET existing_budgets ==
               get_category_budgets_by_month(db, proc[p].user_id,
                                             proc[p].month)
       IN IF existing_budgets = {}
          THEN Respond(p, 404, "not found")
          ELSE proc' = [proc EXCEPT
                          ![p].pc = "reopen_commit",
                          ![p].pending = {b.id : b \in existing_budgets}]
    /\ UNCHANGED <<db, observed>>

\* reopen_month: db.commit() writes the flag of the loaded rows
ReopenCommit(p) ==
    /\ proc[p].pc = "reopen_commit"
    /\ db' = [db EXCEPT !.category_budgets =
                {IF b.id \in proc[p].pending
                 THEN [b EXCEPT !.is_active = TRUE] ELSE b : b \in @}]
    /\ Respond(p, 200, proc[p].month)
    /\ UNCHANGED observed

NextRace ==
    \/ BatchCheckActive
    \/ BatchValidate
    \/ BatchDelete
    \/ BatchDeleteCommit
    \/ BatchAdd
    \/ BatchCommit
    \/ OpenEndpointCheck(2)
    \/ OpenEndpointConflict(2)
    \/ OpenCrudCheck(2)
    \/ OpenExistingCheck(2)
    \/ OpenInsert(2)
    \/ OpenCommit(2)
    \/ ReopenEndpointCheck(2)
    \/ ReopenEndpointConflict(2)
    \/ ReopenCrudCheck(2)
    \/ ReopenSelect(2)
    \/ ReopenCommit(2)

SpecRace == InitRace /\ [][NextRace]_vars

\* transaction is the dict TransactionUpdate.model_dump(exclude_unset=True)
\* yields, over amount and transaction_date.
update_transaction(d, transaction_id, user_id, transaction) ==
    IF get_transaction(d, transaction_id, user_id) = {}
    THEN [ret |-> None, db |-> d]
    ELSE [ret |-> "updated",
          db |-> [d EXCEPT !.transactions =
                    {IF t.id = transaction_id /\ t.user_id = user_id
                     THEN [f \in DOMAIN t |->
                             IF f \in DOMAIN transaction
                             THEN transaction[f] ELSE t[f]]
                     ELSE t : t \in @}]]

\* ------------------------------------------------------- expense CRUD
\* Every call in crud/expense.py passes a category_id, so the optional
\* filter is always applied.
get_expense_by_name(d, user_id, name, category_id) ==
    {e \in d.expenses :
        e.user_id = user_id /\ e.name = name /\ e.category_id = category_id}

\* expense is the ExpenseCreate payload [name, category_id].
create_expense(d, expense, user_id) ==
    IF get_expense_by_name(d, user_id, expense.name, expense.category_id) # {}
    THEN [ret |-> "ValueError: exists", db |-> d]
    ELSE IF get_category(d, expense.category_id, user_id) = {}
    THEN [ret |-> "ValueError: category", db |-> d]
    ELSE [ret |-> "created",
          db |-> [d EXCEPT
                    !.expenses = @ \cup
                        {Expense(d.next_expense_id, user_id,
                                 expense.category_id, expense.name)},
                    !.next_expense_id = @ + 1]]

\* Mutant: update_expense without the check that the new category is one
\* of the user.
update_expense_any_category(d, expense_id, user_id, expense) ==
    IF get_expense(d, expense_id, user_id) = {}
    THEN [ret |-> None, db |-> d]
    ELSE LET db_expense == CHOOSE e \in get_expense(d, expense_id, user_id) :
                               TRUE
             category_id == IF "category_id" \in DOMAIN expense
                            THEN expense.category_id
                            ELSE db_expense.category_id
         IN IF /\ "name" \in DOMAIN expense
               /\ expense.name # db_expense.name
               /\ get_expense_by_name(d, user_id, expense.name,
                                      category_id) # {}
            THEN [ret |-> "ValueError: exists", db |-> d]
            ELSE IF \A c \in d.categories : c.id # category_id
            THEN [ret |-> "IntegrityError", db |-> d]
            ELSE [ret |-> "updated",
                  db |-> [d EXCEPT !.expenses =
                            (@ \ {db_expense}) \cup
                            {[f \in DOMAIN db_expense |->
                                IF f \in DOMAIN expense
                                THEN expense[f] ELSE db_expense[f]]}]]

\* expense is the dict ExpenseUpdate.model_dump(exclude_unset=True) yields,
\* over name and category_id.
update_expense(d, expense_id, user_id, expense) ==
    IF get_expense(d, expense_id, user_id) = {}
    THEN [ret |-> None, db |-> d]
    ELSE LET db_expense == CHOOSE e \in get_expense(d, expense_id, user_id) :
                               TRUE
             category_id == IF "category_id" \in DOMAIN expense
                            THEN expense.category_id
                            ELSE db_expense.category_id
         IN IF /\ "name" \in DOMAIN expense
               /\ expense.name # db_expense.name
               /\ get_expense_by_name(d, user_id, expense.name,
                                      category_id) # {}
            THEN [ret |-> "ValueError: exists", db |-> d]
            ELSE IF /\ "category_id" \in DOMAIN expense
                    /\ expense.category_id # db_expense.category_id
                    /\ get_category(d, expense.category_id, user_id) = {}
            THEN [ret |-> "ValueError: category", db |-> d]
            ELSE [ret |-> "updated",
                  db |-> [d EXCEPT !.expenses =
                            (@ \ {db_expense}) \cup
                            {[f \in DOMAIN db_expense |->
                                IF f \in DOMAIN expense
                                THEN expense[f] ELSE db_expense[f]]}]]

\* Expense.transactions has no delete cascade: see delete_category.
delete_expense(d, expense_id, user_id) ==
    IF get_expense(d, expense_id, user_id) = {}
    THEN [ret |-> "False", db |-> d]
    ELSE IF TransactionsOfExpense(d, expense_id) # {}
    THEN [ret |-> "IntegrityError", db |-> d]
    ELSE [ret |-> "True",
          db |-> [d EXCEPT !.expenses =
                    @ \ get_expense(d, expense_id, user_id)]]

\* The dates the summary filters with: start_date and end_date of
\* get_monthly_summary.
start_date(month) == strptime_date(YearOf(month), MonthNumOf(month), 1)

\* Mutant: the upper bound without the branch for December.
end_date_no_rollover(month) ==
    strptime_date(YearOf(month), MonthNumOf(month) + 1, 1)

\* month.endswith("-12") holds exactly for the texts of a December.
end_date(month) ==
    IF MonthNumOf(month) = 12
    THEN strptime_date(YearOf(month) + 1, 1, 1)
    ELSE strptime_date(YearOf(month), MonthNumOf(month) + 1, 1)

\* The rows both queries of get_monthly_summary filter in.
monthly_transactions(d, user_id, month) ==
    {t \in d.transactions :
        /\ t.user_id = user_id
        /\ DateLe(start_date(month), t.transaction_date)
        /\ DateLt(t.transaction_date, end_date(month))}

\* categories maps the group key Category.id to the (name, total) pair of
\* the returned list; totals are in cents.
get_monthly_summary(d, user_id, month) ==
    IF start_date(month) = ValueError \/ end_date(month) = ValueError
    THEN [ret |-> "ValueError", month |-> month, total_spending |-> 0,
          categories |-> <<>>]
    ELSE LET rows == monthly_transactions(d, user_id, month)
             of_category(c) ==
                 {t \in rows : \E e \in d.expenses :
                     e.category_id = c.id /\ t.expense_id = e.id}
             groups == {c \in d.categories : of_category(c) # {}}
         IN [ret |-> "ok", month |-> month,
             total_spending |-> SumTransactions(rows),
             categories |->
                 [i \in {c.id : c \in groups} |->
                    LET c == CHOOSE x \in groups : x.id = i
                    IN [name |-> c.name,
                        total |-> SumTransactions(of_category(c))]]]

\* A JSON value of the dashboard: null or a number of cents.
Null == <<>>
Number(x) == <<x>>

\* Mutant: the dashboard takes a zero amount for a missing allocation.
get_categories_dashboard_falsy_budget(d, user_id, month) ==
    {LET budget_query == {b \in d.category_budgets :
                             /\ b.user_id = user_id
                             /\ b.category_id = category.id
                             /\ b.month = month}
         spent == {t \in d.transactions : \E e \in d.expenses :
                      /\ t.expense_id = e.id
                      /\ e.category_id = category.id
                      /\ e.user_id = user_id
                      /\ to_char(t.transaction_date) = month}
     IN [id |-> category.id, name |-> category.name,
         totalSpent |-> Number(SumTransactions(spent)),
         budget |-> IF budget_query # {}
                       /\ (CHOOSE b \in budget_query : TRUE).allocated_amount # 0
                    THEN Number((CHOOSE b \in budget_query : TRUE)
                                    .allocated_amount)
                    ELSE Null] :
     category \in {c \in d.categories : c.user_id = user_id}}

\* func.sum over no row is NULL and "or Decimal('0.00')" turns NULL, and a
\* sum of zero, into zero: SumTransactions of the empty set is that zero.
get_categories_dashboard(d, user_id, month) ==
    {LET budget_query == {b \in d.category_budgets :
                             /\ b.user_id = user_id
                             /\ b.category_id = category.id
                             /\ b.month = month}
         spent == {t \in d.transactions : \E e \in d.expenses :
                      /\ t.expense_id = e.id
                      /\ e.category_id = category.id
                      /\ e.user_id = user_id
                      /\ to_char(t.transaction_date) = month}
     IN [id |-> category.id, name |-> category.name,
         totalSpent |-> Number(SumTransactions(spent)),
         budget |-> IF budget_query # {}
                    THEN Number((CHOOSE b \in budget_query : TRUE)
                                    .allocated_amount)
                    ELSE Null] :
     category \in {c \in d.categories : c.user_id = user_id}}

\* The budget and spent entries of get_total_spent_dashboard; its month
\* entry is FormattedMonth of the month text.
get_total_spent_dashboard(d, user_id, month) ==
    [budget |-> SumAmounts({b \in d.category_budgets :
                               b.user_id = user_id /\ b.month = month}),
     spent |-> SumTransactions(
                   {t \in d.transactions : \E e \in d.expenses :
                       /\ t.expense_id = e.id
                       /\ e.user_id = user_id
                       /\ to_char(t.transaction_date) = month})]

\* --------------------------------------- transactions next to the budgets
MaxTransactionId == 2

LedgerMonths == {"2024-11", "2024-12"}
TransactionAmounts == {100, 250}
ExpenseIds == {1, 2, 3}
TransactionIds == 1..MaxTransactionId

\* Days on both sides of each boundary of the months asked about.
TransactionDates ==
    {Date(2024, 11, 30), Date(2024, 12, 1), Date(2024, 12, 31),
     Date(2025, 1, 1)}

ExpenseCatalog ==
    {Expense(1, 1, 1, "groceries"), Expense(2, 1, 2, "landlord"),
     Expense(3, 2, 3, "lunch")}

\* The store with every category and one expense per category, no budget.
LedgerBase ==
    [EmptyDb EXCEPT !.categories = Catalog, !.next_category_id = 4,
                    !.expenses = ExpenseCatalog]

\* The budgets the ledger runs next to: a month just opened (amount 0 on
\* every category of the user), such a month after one of its rows was
\* deleted, or a month allocated for one category.
LedgerStores ==
    {open_new_month(LedgerBase, 1, "2024-12").db,
     delete_category_budget(
         open_new_month(LedgerBase, 1, "2024-12").db, 2, 1).db,
     create_or_update_monthly_budget(
         LedgerBase, 1, "2024-12", [c \in {1} |-> 250]).db}

InitLedger ==
    /\ db \in LedgerStores
    /\ proc = [p \in {1, 2} |-> Idle]
    /\ observed = <<>>

CreateTransaction ==
    \E u \in Users, e \in ExpenseIds, a \in TransactionAmounts,
       dt \in TransactionDates :
        LET r == create_transaction(
                     db, [expense_id |-> e, amount |-> a,
                          transaction_date |-> dt], u)
        IN /\ r.db.next_transaction_id <= MaxTransactionId + 1
           /\ db' = r.db
           /\ UNCHANGED <<proc, observed>>

DeleteTransaction ==
    \E u \in Users, i \in TransactionIds :
        /\ db' = delete_transaction(db, i, u).db
        /\ UNCHANGED <<proc, observed>>

NextLedger ==
    \/ CreateTransaction
    \/ DeleteTransaction

SpecLedger == InitLedger /\ [][NextLedger]_vars

\* ------------------------- categories, expenses and transactions change
MaxCatalogRows == 4

ExpenseNames == {"lunch", "groceries"}
CatalogCategoryIds == 1..MaxCatalogRows
CatalogExpenseIds == 1..MaxCatalogRows
CatalogTransactionIds == 1..MaxCatalogRows
CatalogMonths == {"2024-12", "2025-01"}
CatalogDates == {Date(2024, 12, 31), Date(2025, 1, 1)}
ExpenseUpdates ==
    {<<>>} \cup [{"name"} -> ExpenseNames]
           \cup [{"category_id"} -> CatalogCategoryIds]
           \cup {[name |-> n, category_id |-> c] :
                    n \in ExpenseNames, c \in CatalogCategoryIds}
TransactionUpdates ==
    {<<>>} \cup [{"amount"} -> TransactionAmounts]
           \cup [{"transaction_date"} -> CatalogDates]

\* The rows created so far, over all tables of the catalog.
CatalogRows(d) ==
    (d.next_category_id - 1) + (d.next_expense_id - 1)
        + (d.next_transaction_id - 1) + (d.next_budget_id - 1)

InitCatalog ==
    /\ db = EmptyDb
    /\ proc = [p \in {1, 2} |-> Idle]
    /\ observed = <<>>

CreateCategory ==
    \E u \in Users, n \in CategoryNames :
        LET r == create_category(db, n, u)
        IN /\ CatalogRows(r.db) <= MaxCatalogRows
           /\ db' = r.db
           /\ UNCHANGED <<proc, observed>>

UpdateCategory ==
    \E u \in Users, c \in CatalogCategoryIds, upd \in CategoryUpdates :
        /\ db' = update_category(db, c, upd, u).db
        /\ UNCHANGED <<proc, observed>>

DeleteCategory ==
    \E u \in Users, c \in CatalogCategoryIds :
        /\ db' = delete_category(db, c, u).db
        /\ UNCHANGED <<proc, observed>>

CreateExpense ==
    \E u \in Users, n \in ExpenseNames, c \in CatalogCategoryIds :
        LET r == create_expense(db, [name |-> n, category_id |-> c], u)
        IN /\ CatalogRows(r.db) <= MaxCatalogRows
           /\ db' = r.db
           /\ UNCHANGED <<proc, observed>>

UpdateExpense ==
    \E u \in Users, e \in CatalogExpenseIds, upd \in ExpenseUpdates :
        /\ db' = update_expense(db, e, u, upd).db
        /\ UNCHANGED <<proc, observed>>

DeleteExpense ==
    \E u \in Users, e \in CatalogExpenseIds :
        /\ db' = delete_expense(db, e, u).db
        /\ UNCHANGED <<proc, observed>>

BookTransaction ==
    \E u \in Users, e \in CatalogExpenseIds, a \in TransactionAmounts,
       dt \in CatalogDates :
        LET r == create_transaction(
                     db, [expense_id |-> e, amount |-> a,
                          transaction_date |-> dt], u)
        IN /\ CatalogRows(r.db) <= MaxCatalogRows
           /\ db' = r.db
           /\ UNCHANGED <<proc, observed>>

UpdateTransaction ==
    \E u \in Users, i \in CatalogTransactionIds, upd \in TransactionUpdates :
        /\ db' = update_transaction(db, i, u, upd).db
        /\ UNCHANGED <<proc, observed>>

RemoveTransaction ==
    \E u \in Users, i \in CatalogTransactionIds :
        /\ db' = delete_transaction(db, i, u).db
        /\ UNCHANGED <<proc, observed>>

\* create_category_budget for a category of the catalog.
AllocateCategory ==
    \E u \in Users, c \in CatalogCategoryIds :
        LET r == create_category_budget(
                     db, [category_id |-> c, month |-> "2024-12",
                          allocated_amount |-> 100], u)
        IN /\ CatalogRows(r.db) <= MaxCatalogRows
           /\ db' = r.db
           /\ UNCHANGED <<proc, observed>>

NextCatalog ==
    \/ CreateCategory
    \/ UpdateCategory
    \/ DeleteCategory
    \/ CreateExpense
    \/ UpdateExpense
    \/ DeleteExpense
    \/ BookTransaction
    \/ UpdateTransaction
    \/ RemoveTransaction
    \/ AllocateCategory

SpecCatalog == InitCatalog /\ [][NextCatalog]_vars

\* ------------------------------------------- the month text of the total
\* A month text as the sequence of its characters, so that split, slicing
\* and the f-string of get_total_spent_dashboard are what they are in Python.
MaxTextLen == 7
Chars == {"1", "2", "-", "x"}
Digits == {"1", "2"}
Texts == UNION {[1..n -> Chars] : n \in 0..MaxTextLen}

\* str.split('-'): the pieces between the hyphens, one more than hyphens.
RECURSIVE split(_)
split(text) ==
    IF \A i \in 1..Len(text) : text[i] # "-"
    THEN <<text>>
    ELSE LET i == CHOOSE k \in 1..Len(text) :
                      /\ text[k] = "-"
                      /\ \A j \in 1..(k - 1) : text[j] # "-"
         IN <<SubSeq(text, 1, i - 1)>>
               \o split(SubSeq(text, i + 1, Len(text)))

\* The month entry of get_total_spent_dashboard: unpacking the pieces into
\* year and month_num raises ValueError unless there are exactly two; the
\* slice year[2:] and the f-string never raise.
FormattedMonth(month) ==
    LET parts == split(month)
    IN IF Len(parts) # 2
       THEN month
       ELSE LET year == parts[1]
                month_num == parts[2]
            IN month_num \o <<"/">> \o SubSeq(year, 3, Len(year))

\* datetime.strptime(month, "%Y-%m") of the route accepts four digits, a
\* hyphen and a month number 1..12 written with one or two digits.
strptime_year_month(month) ==
    LET parts == split(month)
    IN /\ Len(parts) = 2
       /\ Len(parts[1]) = 4
       /\ \A i \in 1..4 : parts[1][i] \in Digits
       /\ parts[2] \in {<<"1">>, <<"2">>, <<"1", "1">>, <<"1", "2">>}

\* GET /dashboard/total-spent: 400 for a month strptime refuses, else the
\* month entry of the CRUD result.
total_spent_endpoint(month) ==
    IF ~strptime_year_month(month)
    THEN [status |-> 400, month |-> month]
    ELSE [status |-> 200, month |-> FormattedMonth(month)]

InitFormat ==
    /\ db = EmptyDb
    /\ observed = <<>>
    /\ \E month \in Texts :
          proc = [p \in {1, 2} |->
                     IF p = 1 THEN [pc |-> "request", month |-> month]
                     ELSE Idle]

GetTotalSpentDashboard ==
    /\ proc[1].pc = "request"
    /\ observed' = <<[month |-> FormattedMonth(proc[1].month),
                      endpoint |-> total_spent_endpoint(proc[1].month)]>>
    /\ proc' = [proc EXCEPT ![1].pc = "done"]
    /\ UNCHANGED db

NextFormat == GetTotalSpentDashboard

SpecFormat == InitFormat /\ [][NextFormat]_vars

C5_FullReplace ==
    \A u \in Users, m \in Months, A \in Allocations :
        LET r == create_or_update_monthly_budget(db, u, m, A)
            rows == get_category_budgets_by_month(r.db, u, m)
            old == get_category_budgets_by_month(db, u, m)
        IN r.ret = "created" =>
              /\ \A c \in DOMAIN A :
                    Cardinality({b \in rows : b.category_id = c}) = 1
              /\ \A b \in rows :
                    /\ b.category_id \in DOMAIN A
                    /\ b.allocated_amount = A[b.category_id]
                    /\ b.is_active = TRUE
              /\ {b.id : b \in old} \cap {b.id : b \in r.db.category_budgets} = {}

\* A batch that succeeds on a month holding a row of a category that is no
\* key of the new mapping.
C5_Witness ==
    \E u \in Users, m \in Months, A \in Allocations :
        /\ DOMAIN A # {}
        /\ create_or_update_monthly_budget(db, u, m, A).ret = "created"
        /\ \E b \in get_category_budgets_by_month(db, u, m) :
              b.category_id \notin DOMAIN A

\* C6: a successful open_new_month(u, m) adds exactly one row (u, c, m) per
\* category c of u, with amount 0 and is_active = TRUE, adds no other row
\* and removes or changes none.
C6_OpenCreatesOneRowPerCategory ==
    \A u \in Users, m \in Months :
        LET r == open_new_month(db, u, m)
            added == r.db.category_budgets \ db.category_budgets
        IN r.ret = "True" =>
              /\ db.category_budgets \subseteq r.db.category_budgets
              /\ \A c \in CategoriesOf(db, u) :
                    Cardinality({b \in added : b.category_id = c}) = 1
              /\ \A b \in added :
                    /\ b.user_id = u
                    /\ b.month = m
                    /\ b.category_id \in CategoriesOf(db, u)
                    /\ b.allocated_amount = 0
                    /\ b.is_active = TRUE

\* open_new_month succeeds for a user with two categories while the other
\* user has a category and the table already holds rows.
C6_Witness ==
    \E u \in Users, m \in Months :
        /\ open_new_month(db, u, m).ret = "True"
        /\ Cardinality(CategoriesOf(db, u)) = 2
        /\ \E v \in Users \ {u} : CategoriesOf(db, v) # {}
        /\ db.category_budgets # {}

\* C7: whenever open_new_month(u, m) reports success, get_active_month(u)
\* called next returns m, whatever the number of categories of u.
C7_OpenThenActive ==
    \A u \in Users, m \in Months :
        LET r == open_new_month(db, u, m)
        IN r.ret = "True" => get_active_month(r.db, u) = m

\* C8: while u has an active month x, an open-month request for any month m
\* answers 409 naming x and leaves the store unchanged.
C8_OpenWhileActiveRejected ==
    \A u \in Users, m \in Months :
        LET r == open_month_endpoint(db, m, u)
        IN ActiveMonths(db, u) # {} =>
              /\ r.status = 409
              /\ ActiveMonths(db, u) = {r.detail}
              /\ r.db = db

\* An active month x and a request for another month m that has no rows.
C8_Witness ==
    \E u \in Users, m \in Months :
        /\ ActiveMonths(db, u) # {}
        /\ m \notin ActiveMonths(db, u)
        /\ get_category_budgets_by_month(db, u, m) = {}
        /\ open_month_endpoint(db, m, u).status = 409

\* C9: close_active_month(u) with no active row of u returns False, the
\* endpoint answers 404, and the store is unchanged.
C9_CloseWithoutActive ==
    \A u \in Users :
        active_budgets(db, u) = {} =>
            /\ close_active_month(db, u).ret = "False"
            /\ close_active_month(db, u).db = db
            /\ close_month_endpoint(db, u).status = 404
            /\ close_month_endpoint(db, u).db = db

\* A user with rows, none of them active, while another user has an
\* active month.
C9_Witness ==
    \E u \in Users :
        /\ active_budgets(db, u) = {}
        /\ \E b \in db.category_budgets : b.user_id = u
        /\ \E v \in Users \ {u} : active_budgets(db, v) # {}
        /\ close_active_month(db, u).ret = "False"

\* C10: get_monthly_budget_summary(u, m) right after a successful
\* create_or_update_monthly_budget(u, m, A) has total_allocated equal to the
\* sum of the amounts of A and one category entry per key of A.
C10_SummaryRoundTrip ==
    \A u \in Users, m \in Months, A \in Allocations :
        LET r == create_or_update_monthly_budget(db, u, m, A)
            summary == get_monthly_budget_summary(r.db, u, m)
        IN r.ret = "created" =>
              /\ summary.total_allocated = SumAllocation(A)
              /\ {e.category_id : e \in summary.categories} = DOMAIN A
              /\ Cardinality(summary.categories) = Cardinality(DOMAIN A)

\* A batch of two keys with different amounts succeeds while the user holds
\* rows of another month and the month itself holds an older row.
C10_Witness ==
    \E u \in Users, m \in Months, A \in Allocations :
        /\ create_or_update_monthly_budget(db, u, m, A).ret = "created"
        /\ Cardinality(DOMAIN A) = 2
        /\ Cardinality({A[c] : c \in DOMAIN A}) = 2
        /\ get_category_budgets_by_month(db, u, m) # {}
        /\ \E b \in db.category_budgets : b.user_id = u /\ b.month # m

\* C13: get_active_month(u) is a read: from one store every call returns
\* the same value, the month of u's active rows, or None when u has no
\* active row.
C13_ActiveMonthRead ==
    \A u \in Users :
        LET results == get_active_month_results(db, u)
        IN /\ Cardinality(results) = 1
           /\ results = {get_active_month(db, u)}
           /\ active_budgets(db, u) = {} <=> results = {None}
           /\ \A b \in active_budgets(db, u) : results = {b.month}

\* A user whose active month is 2024-04 and who keeps rows of the closed
\* month 2024-03, next to a user without an active month.
C13_Witness ==
    \E u \in Users :
        /\ get_active_month_results(db, u) = {"2024-04"}
        /\ \E b \in db.category_budgets :
              b.user_id = u /\ b.month = "2024-03"
        /\ \E v \in Users \ {u} : get_active_month_results(db, v) = {None}

\* C14 as stated: create_or_update_monthly_budget(u, m, A) with a key of A
\* that is no category of u fails with the error listing those ids and
\* writes nothing.
C14_ForeignKeyListed ==
    \A u \in Users, m \in Months, A \in Allocations :
        LET r == create_or_update_monthly_budget(db, u, m, A)
        IN ~(DOMAIN A \subseteq CategoriesOf(db, u)) =>
              /\ r.ret = "ValueError: categories"
              /\ r.db = db

\* C14, amended: create_or_update_monthly_budget(u, m, A) with a key of A
\* that is no category of u fails and writes nothing; when u has no active
\* month other than m, the error is the one listing exactly the keys of A
\* that are no category of u.
C14_ForeignKeyRejected ==
    \A u \in Users, m \in Months, A \in Allocations :
        LET r == create_or_update_monthly_budget(db, u, m, A)
            foreign == DOMAIN A \ CategoriesOf(db, u)
        IN foreign # {} =>
              /\ r.ret \in {"ValueError: categories", "ValueError: active month"}
              /\ r.db = db
              /\ ActiveMonths(db, u) \subseteq {m} =>
                    /\ r.ret = "ValueError: categories"
                    /\ r.missing_ids = foreign

\* The active month m of u holds a row, and a batch for m with one own and
\* one foreign key is refused with the list of the foreign key.
C14_Witness ==
    \E u \in Users, m \in Months, A \in Allocations :
        LET r == create_or_update_monthly_budget(db, u, m, A)
        IN /\ ActiveMonths(db, u) = {m}
           /\ DOMAIN A \cap CategoriesOf(db, u) # {}
           /\ DOMAIN A \ CategoriesOf(db, u) # {}
           /\ r.ret = "ValueError: categories"
           /\ r.missing_ids = DOMAIN A \ CategoriesOf(db, u)

\* C15: create_or_update_monthly_budget(u, m, A) while u has an active
\* month x other than m fails with the error naming x and writes nothing.
C15_OtherMonthActive ==
    \A u \in Users, m \in Months, A \in Allocations :
        LET r == create_or_update_monthly_budget(db, u, m, A)
        IN (ActiveMonths(db, u) # {} /\ m \notin ActiveMonths(db, u)) =>
              /\ r.ret = "ValueError: active month"
              /\ ActiveMonths(db, u) = {r.active_month}
              /\ r.db = db

\* u has x active and closed rows in m, and a batch for m whose keys are
\* all categories of u is refused.
C15_Witness ==
    \E u \in Users, m \in Months, A \in Allocations :
        /\ ActiveMonths(db, u) # {}
        /\ m \notin ActiveMonths(db, u)
        /\ get_category_budgets_by_month(db, u, m) # {}
        /\ DOMAIN A # {}
        /\ DOMAIN A \subseteq CategoriesOf(db, u)
        /\ create_or_update_monthly_budget(db, u, m, A).ret
              = "ValueError: active month"

\* C16: open_new_month(u, m) while u has no active month and (u, m) has a
\* row raises the "already exists, use reopen_month" error, which the
\* endpoint answers with 400 and that text, and the store is unchanged.
C16_OpenExistingMonth ==
    \A u \in Users, m \in Months :
        (/\ active_budgets(db, u) = {}
         /\ get_category_budgets_by_month(db, u, m) # {}) =>
            /\ open_new_month(db, u, m).ret = "ValueError"
            /\ open_new_month(db, u, m).db = db
            /\ open_month_endpoint(db, m, u).status = 400
            /\ open_month_endpoint(db, m, u).detail = "exists"
            /\ open_month_endpoint(db, m, u).db = db

\* A user with a category who closed month m and asks to open it again.
C16_Witness ==
    \E u \in Users, m \in Months :
        /\ CategoriesOf(db, u) # {}
        /\ active_budgets(db, u) = {}
        /\ \E b \in get_category_budgets_by_month(db, u, m) :
              b.allocated_amount = 0
        /\ open_new_month(db, u, m).ret = "ValueError"

\* C17: reopen_month(u, m) with no row of (u, m) returns False, a value and
\* not an exception, and changes no row; the endpoint, which makes the call
\* when u has no active month, answers it with 404 and changes no row.
C17_ReopenMissingMonth ==
    \A u \in Users, m \in Months :
        get_category_budgets_by_month(db, u, m) = {} =>
            /\ reopen_month(db, u, m).ret = "False"
            /\ reopen_month(db, u, m).db = db
            /\ reopen_month_endpoint(db, m, u).db = db
            /\ active_budgets(db, u) = {} =>
                  reopen_month_endpoint(db, m, u).status = 404

\* A user without an active month who holds closed rows of another month
\* asks to reopen a month that has none.
C17_Witness ==
    \E u \in Users, m \in Months :
        /\ get_category_budgets_by_month(db, u, m) = {}
        /\ active_budgets(db, u) = {}
        /\ \E b \in db.category_budgets : b.user_id = u
        /\ reopen_month_endpoint(db, m, u).status = 404

\* C18: a successful reopen_month(u, m) sets is_active on every row of
\* (u, m) and changes nothing else: ids, categories and amounts of those
\* rows stay, every other row stays as it is, rows of other months of u are
\* not active, and get_active_month(u) then returns m.
C18_ReopenFlipsOnlyFlags ==
    \A u \in Users, m \in Months :
        LET r == reopen_month(db, u, m)
            old == get_category_budgets_by_month(db, u, m)
        IN r.ret = "True" =>
              /\ get_category_budgets_by_month(r.db, u, m)
                    = {[b EXCEPT !.is_active = TRUE] : b \in old}
              /\ r.db.category_budgets \ get_category_budgets_by_month(r.db, u, m)
                    = db.category_budgets \ old
              /\ \A b \in r.db.category_budgets :
                    (b.user_id = u /\ b.month # m) => ~b.is_active
              /\ get_active_month_results(r.db, u) = {m}
              /\ r.db.next_budget_id = db.next_budget_id

\* A user who holds closed rows of two months reopens one of them.
C18_Witness ==
    \E u \in Users, m \in Months :
        /\ reopen_month(db, u, m).ret = "True"
        /\ \E b \in db.category_budgets : b.user_id = u /\ b.month # m

\* C19: a successful close_active_month(u) leaves no active row of u, so
\* get_active_month(u) returns None; it deletes no row and changes no
\* amount: the rows are those from before with the flag cleared on u's.
C19_CloseClearsFlags ==
    \A u \in Users :
        LET r == close_active_month(db, u)
        IN r.ret = "True" =>
              /\ active_budgets(r.db, u) = {}
              /\ get_active_month_results(r.db, u) = {None}
              /\ r.db.category_budgets =
                    {IF b.user_id = u THEN [b EXCEPT !.is_active = FALSE]
                     ELSE b : b \in db.category_budgets}
              /\ {b.id : b \in r.db.category_budgets}
                    = {b.id : b \in db.category_budgets}

\* A user closes an active month of two rows with different amounts.
C19_Witness ==
    \E u \in Users :
        /\ close_active_month(db, u).ret = "True"
        /\ \E b1, b2 \in active_budgets(db, u) :
              b1.allocated_amount # b2.allocated_amount

\* C20: after any sequence of completed, non-overlapping calls there is at
\* most one allocation row for every (user, category, month).
C20_OneRowPerTriple ==
    \A b1, b2 \in db.category_budgets :
        (/\ b1.user_id = b2.user_id
         /\ b1.category_id = b2.category_id
         /\ b1.month = b2.month) => b1 = b2

\* Two rows of one user and one category, in different months.
C20_Witness ==
    \E b1, b2 \in db.category_budgets :
        /\ b1.user_id = b2.user_id
        /\ b1.category_id = b2.category_id
        /\ b1.month # b2.month

\* The allocation rows that are not rows of the user.
RowsOfOthers(d, user_id) ==
    {b \in d.category_budgets : b.user_id # user_id}

\* C21: a call made for user u neither reads nor changes what user v owns:
\* get, update and delete of a category or an allocation row of v by id
\* find nothing, return None / False and leave the store as it is, and
\* open, reopen, close, batch allocation and delete-by-month for u leave
\* every allocation row of every other user, and so their active month, as
\* it is.
C21_UserIsolation ==
    \A u \in Users :
        /\ \A c \in {x \in db.categories : x.user_id # u} :
              /\ get_category(db, c.id, u) = {}
              /\ \A upd \in CategoryUpdates :
                    /\ update_category(db, c.id, upd, u).db = db
                    /\ update_category(db, c.id, upd, u).ret = None
              /\ delete_category(db, c.id, u).db = db
              /\ delete_category(db, c.id, u).ret = "False"
        /\ \A b \in RowsOfOthers(db, u) :
              /\ get_category_budget(db, b.id, u) = {}
              /\ \A upd \in BudgetUpdates :
                    /\ update_category_budget(db, b.id, upd, u).db = db
                    /\ update_category_budget(db, b.id, upd, u).ret = None
              /\ delete_category_budget(db, b.id, u).db = db
              /\ delete_category_budget(db, b.id, u).ret = FALSE
        /\ RowsOfOthers(close_active_month(db, u).db, u) = RowsOfOthers(db, u)
        /\ \A m \in Months :
              /\ RowsOfOthers(open_new_month(db, u, m).db, u)
                    = RowsOfOthers(db, u)
              /\ RowsOfOthers(reopen_month(db, u, m).db, u)
                    = RowsOfOthers(db, u)
              /\ RowsOfOthers(delete_category_budgets_by_month(db, u, m).db, u)
                    = RowsOfOthers(db, u)
              /\ \A A \in Allocations :
                    RowsOfOthers(
                        create_or_update_monthly_budget(db, u, m, A).db, u)
                        = RowsOfOthers(db, u)

\* User v has an active month m; user u, who owns a category and a row of
\* the same month, can open, close or delete for m and name v's row by id.
C21_Witness ==
    \E u \in Users, m \in Months :
        \E b \in RowsOfOthers(db, u) :
            /\ b.month = m /\ b.is_active
            /\ CategoriesOf(db, u) # {}
            /\ get_category_budgets_by_month(db, u, m) # {}
            /\ delete_category_budget(db, b.id, u).ret = FALSE

\* C24: all allocation rows of one user that share a month carry the same
\* is_active value.
C24_SameFlagPerMonth ==
    \A b1, b2 \in db.category_budgets :
        (b1.user_id = b2.user_id /\ b1.month = b2.month) =>
            b1.is_active = b2.is_active

C29_DeleteMonthLeavesNoActiveMonth ==
    \A u \in Users, m \in Months :
        LET r == delete_category_budgets_by_month(db, u, m)
            rows == get_category_budgets_by_month(db, u, m)
        IN /\ r.db.category_budgets = db.category_budgets \ rows
           /\ r.db.categories = db.categories
           /\ r.ret = Cardinality(rows)
           /\ delete_monthly_budget(db, m, u).db = r.db
           /\ delete_monthly_budget(db, m, u).status
                 = IF rows = {} THEN 404 ELSE 204
           /\ ActiveMonths(db, u) = {m} =>
                 /\ active_budgets(r.db, u) = {}
                 /\ get_active_month_results(r.db, u) = {None}
                 /\ get_category_budgets_by_month(r.db, u, m) = {}
                 /\ open_new_month(r.db, u, m).ret = "True"
                 /\ reopen_month(r.db, u, m).ret = "False"
                 /\ reopen_month(r.db, u, m).db = r.db

\* m is the active month of u, who has closed rows in another month.
C29_Witness ==
    \E u \in Users, m \in Months :
        /\ ActiveMonths(db, u) = {m}
        /\ \E b \in db.category_budgets : b.user_id = u /\ b.month # m

\* ==================================================== claims (SpecOpen)
\* C2: when two open-month requests of one user for different months m1 and
\* m2 interleave their steps, no reachable state holds active rows for both
\* m1 and m2.
C2_ConcurrentOpenOneActive ==
    ~ \E b1, b2 \in db.category_budgets :
         /\ b1.user_id = proc[1].user_id /\ b1.month = proc[1].month
         /\ b2.user_id = proc[2].user_id /\ b2.month = proc[2].month
         /\ b1.is_active /\ b2.is_active

\* =================================================== claims (SpecBatch)
NewContent(allocations) ==
    {[category_id |-> c, allocated_amount |-> allocations[c],
      is_active |-> TRUE] : c \in DOMAIN allocations}

\* C3: while create_or_update_monthly_budget(u, m, A) runs, a reader of the
\* committed table sees for (u, m) either the rows from before the call or
\* the new rows of A, never the state in between.
C3_ReaderSeesOldOrNew ==
    observed # <<>> =>
        \/ observed[1] = proc[1].before
        \/ observed[1] = NewContent(proc[1].allocations)

\* C4: a storage error while the new rows are inserted or committed leaves
\* the committed rows of (u, m) exactly as they were before the call.
C4_StorageErrorKeepsOldRows ==
    (proc[1].pc = "failed" /\ proc[1].failed_at = "commit") =>
        RowContent(get_category_budgets_by_month(
                       db, proc[1].user_id, proc[1].month)) = proc[1].before

\* ================================================== claims (SpecLedger)
\* The transaction is dated in the calendar month the text names.
DatedIn(t, month) ==
    /\ t.transaction_date.year = YearOf(month)
    /\ t.transaction_date.month = MonthNumOf(month)

\* The transactions booked on an expense of the category.
TransactionsOfCategory(d, category_id) ==
    {t \in d.transactions : \E e \in d.expenses :
        e.id = t.expense_id /\ e.category_id = category_id}

\* C11: get_categories_dashboard(u, m) has one row per category of u; a
\* category without a transaction dated in m has totalSpent 0, never null;
\* budget is null exactly when (u, category, m) has no allocation row, and
\* a row of amount 0 gives budget 0.
C11_DashboardRows ==
    \A u \in Users, m \in LedgerMonths :
        LET rows == get_categories_dashboard(db, u, m)
        IN /\ {r.id : r \in rows} = CategoriesOf(db, u)
           /\ Cardinality(rows) = Cardinality(CategoriesOf(db, u))
           /\ \A r \in rows :
                 LET allocation == {b \in db.category_budgets :
                                       /\ b.user_id = u
                                       /\ b.category_id = r.id
                                       /\ b.month = m}
                 IN /\ r.totalSpent # Null
                    /\ (\A t \in TransactionsOfCategory(db, r.id) :
                            ~DatedIn(t, m)) => r.totalSpent = Number(0)
                    /\ r.budget = Null <=> allocation = {}
                    /\ \A b \in allocation :
                          b.allocated_amount = 0 => r.budget = Number(0)

\* A user with one category that has an allocation of 0 in m and is spent
\* on only in another month, and one category without an allocation in m.
C11_Witness ==
    \E u \in Users, m \in LedgerMonths :
        \E r1, r2 \in get_categories_dashboard(db, u, m) :
            /\ r1.budget = Number(0)
            /\ r1.totalSpent = Number(0)
            /\ TransactionsOfCategory(db, r1.id) # {}
            /\ r2.budget = Null
            /\ r2.totalSpent # Number(0)

\* C12: get_monthly_summary(u, 'YYYY-MM') counts a transaction of u exactly
\* when first-day-of-month <= date < first-day-of-next-month, the upper
\* bound being January 1 of YYYY+1 for MM = 12 and day 1 of month MM+1
\* otherwise; for 2024-12 the range is [2024-12-01, 2025-01-01).
C12_MonthRange ==
    /\ start_date("2024-12") = Date(2024, 12, 1)
    /\ end_date("2024-12") = Date(2025, 1, 1)
    /\ \A u \in Users, m \in LedgerMonths :
          LET r == get_monthly_summary(db, u, m)
              upper == IF MonthNumOf(m) = 12
                       THEN Date(YearOf(m) + 1, 1, 1)
                       ELSE Date(YearOf(m), MonthNumOf(m) + 1, 1)
              counted == {t \in db.transactions :
                             /\ t.user_id = u
                             /\ DateLe(Date(YearOf(m), MonthNumOf(m), 1),
                                       t.transaction_date)
                             /\ DateLt(t.transaction_date, upper)}
          IN /\ r.ret = "ok"
             /\ monthly_transactions(db, u, m) = counted
             /\ counted = {t \in db.transactions :
                              t.user_id = u /\ DatedIn(t, m)}
             /\ r.total_spending = SumTransactions(counted)

\* A user with a transaction on 2024-12-31 and one on 2025-01-01: the
\* summary of 2024-12 counts the first only.
C12_Witness ==
    \E u \in Users :
        \E t1, t2 \in db.transactions :
            /\ t1.user_id = u /\ t2.user_id = u
            /\ t1.transaction_date = Date(2024, 12, 31)
            /\ t2.transaction_date = Date(2025, 1, 1)
            /\ t1.amount # t2.amount
            /\ get_monthly_summary(db, u, "2024-12").total_spending = t1.amount


\* ================================================= claims (SpecCatalog)
\* C22: delete_category(c) by its owner removes the category with all of
\* its allocation rows and all of its expenses, also when the expenses have
\* transactions, and leaves no allocation row or expense that names c.
C22_DeleteCategoryCascades ==
    \A c \in db.categories :
        LET r == delete_category(db, c.id, c.user_id)
        IN /\ r.ret = "True"
           /\ \A x \in r.db.categories : x.id # c.id
           /\ \A b \in r.db.category_budgets : b.category_id # c.id
           /\ \A e \in r.db.expenses : e.category_id # c.id

\* C23: no user owns two categories of one name; create_category and
\* update_category with a name the user already uses raise "already exists"
\* and change nothing, and a name used by another user only is accepted.
C23_UniqueCategoryNames ==
    /\ \A c1, c2 \in db.categories :
          (c1.user_id = c2.user_id /\ c1.name = c2.name) => c1 = c2
    /\ \A u \in Users, n \in CategoryNames :
          IF get_category_by_name(db, n, u) # {}
          THEN /\ create_category(db, n, u).ret = "ValueError"
               /\ create_category(db, n, u).db = db
               /\ \A c \in db.categories :
                     (c.user_id = u /\ c.name # n) =>
                        /\ update_category(db, c.id, [name |-> n], u).ret
                              = "ValueError"
                        /\ update_category(db, c.id, [name |-> n], u).db = db
          ELSE /\ \E c \in create_category(db, n, u).db.categories :
                     c.user_id = u /\ c.name = n /\ c \notin db.categories
               /\ \A c \in db.categories :
                     c.user_id = u =>
                        update_category(db, c.id, [name |-> n], u).ret
                            = "updated"

\* Both users own a category "food", one of them also a category "rent"
\* that it may not rename to "food".
C23_Witness ==
    \E u \in Users :
        \E v \in Users \ {u} :
            /\ get_category_by_name(db, "food", u) # {}
            /\ get_category_by_name(db, "food", v) # {}
            /\ \E c \in get_category_by_name(db, "rent", u) :
                  update_category(db, c.id, [name |-> "food"], u).ret
                      = "ValueError"

\* C25: after any sequence of create_expense and update_expense calls no
\* two expenses of one user in one category have the same name.
C25_UniqueExpenseNames ==
    \A e1, e2 \in db.expenses :
        (/\ e1.user_id = e2.user_id
         /\ e1.category_id = e2.category_id
         /\ e1.name = e2.name) => e1 = e2

RECURSIVE SumTotalSpent(_)
SumTotalSpent(rows) ==
    IF rows = {} THEN 0
    ELSE LET r == CHOOSE x \in rows : TRUE
         IN r.totalSpent[1] + SumTotalSpent(rows \ {r})

RECURSIVE SumCategoryTotals(_)
SumCategoryTotals(categories) ==
    IF DOMAIN categories = {} THEN 0
    ELSE LET i == CHOOSE x \in DOMAIN categories : TRUE
         IN categories[i].total
               + SumCategoryTotals([j \in DOMAIN categories \ {i} |->
                                       categories[j]])

WellFormed(month) ==
    /\ Len(month) = 7
    /\ \A i \in {1, 2, 3, 4, 6, 7} : month[i] \in Digits
    /\ month[5] = "-"
    /\ SubSeq(month, 6, 7) \in {<<"1", "1">>, <<"1", "2">>}

\* C27: get_total_spent_dashboard returns month as 'MM/YY' for every
\* well-formed 'YYYY-MM' input and returns every malformed input unchanged.
C27_MonthFormat ==
    proc[1].pc = "done" =>
        LET month == proc[1].month
        IN observed[1].month
              = IF WellFormed(month)
                THEN <<month[6], month[7], "/", month[3], month[4]>>
                ELSE month

\* ==================================================== claims (SpecRace)
\* C28: when a batch for the active month m1 runs next to an open-month or
\* reopen-month request of the same user for another month m2, no
\* interleaving ends with active rows in both m1 and m2.
C28_RaceOneActiveMonth ==
    (proc[1].pc = "done" /\ proc[2].pc = "done") =>
        Cardinality(ActiveMonths(db, proc[1].user_id)) <= 1

====
